---- MODULE Spec2Model ----
(***************************************************************************)
(* Model of function.py: create_single_map and create_standard_layout.    *)
(* Each call is a run of steps, one per statement of the function; the    *)
(* host application (arcpy) answers every call with a result it chooses,  *)
(* or with a failure.  Coordinates are in 1/10000 inch, so 4.1215 is      *)
(* 41215; text is a sequence of character codes, so "10" is <<49, 48>>.   *)
(***************************************************************************)
EXTENDS Integers, Sequences, FiniteSets, TLC

VARIABLES
    fn,             \* the function that was called
    args,           \* the arguments the caller passed, by parameter name
    supplied,       \* the optional parameters the caller passed
    pc,             \* the statement the call is at
    status,         \* "running", "returned" or "raised"
    error,          \* the exception that ended the call
    result,         \* what the call returned
    calls,          \* the host calls made so far, in order
    layers,         \* host: the layer objects, by id
    mapLayers,      \* host: the ids of the layers of map m, top first
    todo,           \* the rest of the list the loop of line 54 walks
    sym,            \* the local symbology object
    layerSymbology, \* host: the symbology held by the data layer
    labelMapReads,  \* how many times label_map was read
    layoutDef,      \* host: the elements of the layout's definition
    lyt_cim,        \* the local copy of the layout's definition
    legendDef,      \* host: the items of the legend's definition
    leg_cim,        \* the local copy of the legend's definition
    cursor,         \* the index of the item the loop of line 71 is at
    elements        \* host: the elements created on the layout, in order

vars == <<fn, args, supplied, pc, status, error, result, calls, layers,
          mapLayers, todo, sym, layerSymbology, labelMapReads, layoutDef,
          lyt_cim, legendDef, leg_cim, cursor, elements>>

(***************************************************************************)
(* Bounds of the model.                                                    *)
(***************************************************************************)
MaxDefaultLayers == 2
MaxItems == 2
MaxCimElements == 2
MaxLegendItems == 2

(***************************************************************************)
(* Text and numbers as Python computes them.                               *)
(***************************************************************************)
IsDigit(c) == c >= 48 /\ c <= 57

RECURSIVE DigitsValue(_)
DigitsValue(s) ==
    IF s = <<>> THEN 0
    ELSE 10 * DigitsValue(SubSeq(s, 1, Len(s) - 1)) + (s[Len(s)] - 48)

\* A value of the field is a Python int or a Python str
IntValue(n) == [t |-> "int", n |-> n, s |-> <<>>]

StrValue(s) == [t |-> "str", n |-> 0, s |-> s]

\* int(x) of line 72 is defined for an int and for a string of digits
CanInt(v) ==
    \/ v.t = "int"
    \/ /\ v.t = "str"
       /\ v.s # <<>>
       /\ \A i \in 1..Len(v.s) : IsDigit(v.s[i])

PyInt(v) == IF v.t = "int" THEN v.n ELSE DigitsValue(v.s)

RECURSIVE PyStr(_)
PyStr(n) ==
    IF n < 10 THEN <<48 + n>>
    ELSE Append(PyStr(n \div 10), 48 + (n % 10))

\* a < b for two Python strings: lexicographic by character code
RECURSIVE StrLess(_, _)
StrLess(a, b) ==
    IF b = <<>> THEN FALSE
    ELSE IF a = <<>> THEN TRUE
    ELSE IF a[1] # b[1] THEN a[1] < b[1]
    ELSE StrLess(Tail(a), Tail(b))

\* the key of line 69 is the raw value; it is compared as Python compares it
KeyLess(x, y) ==
    IF x.value.t = "int" THEN x.value.n < y.value.n
    ELSE StrLess(x.value.s, y.value.s)

SameTypeKeys(items) ==
    \A i, j \in 1..Len(items) : items[i].value.t = items[j].value.t

RECURSIVE InsertSorted(_, _)
InsertSorted(sorted, x) ==
    IF sorted = <<>> THEN <<x>>
    ELSE IF KeyLess(x, sorted[Len(sorted)])
         THEN Append(InsertSorted(SubSeq(sorted, 1, Len(sorted) - 1), x),
                     sorted[Len(sorted)])
         ELSE Append(sorted, x)

\* list.sort of line 69: stable, ascending by key
RECURSIVE ListSort(_)
ListSort(items) ==
    IF items = <<>> THEN <<>>
    ELSE InsertSorted(ListSort(SubSeq(items, 1, Len(items) - 1)),
                      items[Len(items)])

\* dict.get(key, default) of line 73
DictGet(d, key, default) == IF key \in DOMAIN d THEN d[key] ELSE default

\* as ItemLabel, but the fallback is the value as the host wrote it
ItemLabelRaw(label_map, item) ==
    DictGet(label_map.d, PyInt(item.value), item.label)

ItemLabel(label_map, item) ==
    DictGet(label_map.d, PyInt(item.value), PyStr(PyInt(item.value)))

(***************************************************************************)
(* Parameters and their defaults (lines 6-16 and 91-102).                  *)
(***************************************************************************)
DefaultLabelMap == [none |-> TRUE, d |-> <<>>]

DefaultClassificationMethod == "NaturalBreaks"

DefaultBreakCount == 5

\* as DefaultTitlePosition, with the coordinates exchanged
DefaultTitlePositionSwapped == <<55390, 41215>>

DefaultTitlePosition == <<41215, 55390>>

DefaultLegendPosition == <<1464, 22927>>

DefaultLegendSize == <<12357, 17131>>

DefaultScalebarPosition == <<27713, 2371>>

DefaultNorthArrowPosition == <<72704, 48844>>

\* arcpy.Extent(0.885, 0.665, 7.385, 5.165) of line 139
DefaultMapframeExtent == <<8850, 6650, 73850, 51650>>

\* the page of line 136
PageSize == <<82700, 58300>>

Defaults ==
    [label_map |-> DefaultLabelMap,
     classification_method |-> DefaultClassificationMethod,
     break_count |-> DefaultBreakCount,
     title_position |-> DefaultTitlePosition,
     legend_position |-> DefaultLegendPosition,
     legend_size |-> DefaultLegendSize,
     scalebar_position |-> DefaultScalebarPosition,
     north_arrow_position |-> DefaultNorthArrowPosition]

\* the value a parameter is bound to when the function is entered
Param(name) == IF name \in supplied THEN args[name] ELSE Defaults[name]

MapframeExtentIsNone == "mapframe_extent" \notin supplied

SingleMapOptional == {"label_map", "classification_method", "break_count"}

LayoutOptional ==
    {"mapframe_extent", "title_position", "legend_position", "legend_size",
     "scalebar_position", "north_arrow_position"}

\* the renderer names the callers of the model pass
Renderers ==
    {"UniqueValueRenderer", "GraduatedColorsRenderer", "SimpleRenderer",
     "Heatmap"}

\* the renderer names updateRenderer knows
HostRenderers ==
    {"UniqueValueRenderer", "GraduatedColorsRenderer", "SimpleRenderer"}

\* the label mappings the callers of the model pass: {}, {1: "A"} and
\* {2: "B", 10: "C"}
LabelMaps ==
    {[none |-> FALSE, d |-> <<>>],
     [none |-> FALSE, d |-> (1 :> <<65>>)],
     [none |-> FALSE, d |-> (2 :> <<66>>) @@ (10 :> <<67>>)]}

(***************************************************************************)
(* The statements of the two functions, in the order they run.             *)
(***************************************************************************)
SingleMapPrologue ==
    <<"createMap", "addDataFromPath", "setName", "listLayers",
      "removeBasemaps", "getSymbology", "updateRenderer", "listColorRamps",
      "setColorRamp">>

UniqueValueSteps == <<"setFields", "getItems", "sortItems", "labelItems">>

\* as GraduatedSteps, but reclassifying before the break count is set
GraduatedStepsEarly ==
    <<"setClassificationField", "setClassificationMethod", "reclassify",
      "setBreakCount">>

GraduatedSteps ==
    <<"setClassificationField", "setClassificationMethod", "setBreakCount",
      "reclassify">>

\* as SingleMapSteps, but writing the symbology back before the renderer
\* is told apart
SingleMapStepsWriteFirst(renderer) ==
    SingleMapPrologue
    \o <<"setSymbology">>
    \o (IF renderer = "UniqueValueRenderer" THEN UniqueValueSteps
        ELSE IF renderer = "GraduatedColorsRenderer" THEN GraduatedSteps
        ELSE <<"raiseUnsupported">>)
    \o <<"returnMapLayer">>

SingleMapSteps(renderer) ==
    SingleMapPrologue
    \o (IF renderer = "UniqueValueRenderer" THEN UniqueValueSteps
        ELSE IF renderer = "GraduatedColorsRenderer" THEN GraduatedSteps
        ELSE <<"raiseUnsupported">>)
    \o <<"setSymbology", "returnMapLayer">>

\* as LayoutSteps, but writing the layout's definition back after the title
\* is created
LayoutStepsLateWrite ==
    <<"createLayout", "defaultExtent", "createMapFrame", "getDefinition",
      "clearBorders", "getLayerExtent", "setExtent", "listStyleItems_TEXT",
      "createTextElement", "setDefinition", "setAnchor",
      "setFontFamilyName", "listStyleItems_LEGEND", "createLegend",
      "setElementWidth", "setElementHeight", "legendGetDefinition",
      "hideLegendNames", "legendSetDefinition", "listStyleItems_SCALE_BAR",
      "createScaleBar", "listStyleItems_NORTH_ARROW", "createNorthArrow",
      "returnLayout">>

LayoutSteps ==
    <<"createLayout", "defaultExtent", "createMapFrame", "getDefinition",
      "clearBorders", "setDefinition", "getLayerExtent", "setExtent",
      "listStyleItems_TEXT", "createTextElement", "setAnchor",
      "setFontFamilyName", "listStyleItems_LEGEND", "createLegend",
      "setElementWidth", "setElementHeight", "legendGetDefinition",
      "hideLegendNames", "legendSetDefinition", "listStyleItems_SCALE_BAR",
      "createScaleBar", "listStyleItems_NORTH_ARROW", "createNorthArrow",
      "returnLayout">>

Steps ==
    IF fn = "create_single_map" THEN SingleMapSteps(args.renderer)
    ELSE LayoutSteps

IndexOf(seq, x) == CHOOSE i \in 1..Len(seq) : seq[i] = x

\* the statement that runs after statement step
Succ(step) == Steps[IndexOf(Steps, step) + 1]

\* the statements that run in Python alone; every other one calls the host
PythonSteps ==
    {"sortItems", "labelItems", "raiseUnsupported", "returnMapLayer",
     "clearBorders", "hideLegendNames", "returnLayout"}

Running(step) == status = "running" /\ pc = step

Log(op, arg) == Append(calls, [op |-> op, arg |-> arg, ok |-> TRUE])

NoError == [type |-> "none", msg |-> <<>>]

\* an exception leaves the function at the statement that raised it
Raise(type, msg) ==
    /\ status' = "raised"
    /\ error' = [type |-> type, msg |-> msg]
    /\ UNCHANGED <<pc, result>>

Proceed ==
    /\ pc' = Succ(pc)
    /\ UNCHANGED <<status, error, result>>

ctlVars == <<fn, args, supplied>>

mapVars == <<layers, mapLayers, todo>>

symVars == <<sym, layerSymbology, labelMapReads, cursor>>

layoutVars == <<layoutDef, lyt_cim, legendDef, leg_cim, elements>>

(***************************************************************************)
(* The values the host hands out.                                          *)
(***************************************************************************)
\* the numbers the field of the dataset holds
HostNumbers == {1, 2, 10}

\* what the host may hand out for them: the numeral, the numeral with a
\* leading zero, and the empty string of a missing value
Strings ==
    {<<>>} \cup {PyStr(n) : n \in HostNumbers}
           \cup {<<48>> \o PyStr(n) : n \in HostNumbers}

\* the host holds a value as a str or as an int
Values ==
    {StrValue(s) : s \in Strings} \cup {IntValue(n) : n \in HostNumbers}

\* a class of the unique-value renderer, labelled with its value
HostItem(value) ==
    [value |-> value,
     label |-> IF value.t = "int" THEN PyStr(value.n) ELSE value.s]

\* the classes of a group: one for each distinct value of the field
ItemLists ==
    {items \in UNION {[1..n -> {HostItem(v) : v \in Values}] :
                         n \in 0..MaxItems} :
        \A i, j \in 1..Len(items) : i # j => items[i] # items[j]}

\* the symbology of a layer that was just added
HostSymbology ==
    [renderer |-> "SimpleRenderer", colorRamp |-> "", fields |-> <<>>,
     groups |-> 0, items |-> <<>>, classificationField |-> "",
     classificationMethod |-> "", breakCount |-> 0, reclassified |-> 0]

NotPassed == "-"

SingleMapArgs(renderer, sup, label_map) ==
    [map_name |-> "Map1", layer_path |-> "tracts.shp",
     layer_name |-> "Population", renderer |-> renderer,
     variable_name |-> "POP", color_map |-> "Viridis",
     label_map |-> IF "label_map" \in sup THEN label_map ELSE NotPassed,
     classification_method |->
         IF "classification_method" \in sup THEN "Quantile" ELSE NotPassed,
     break_count |-> IF "break_count" \in sup THEN 7 ELSE NotPassed]

LayoutArgs(sup) ==
    [map_obj |-> "Map1", layer |-> "Population", layout_name |-> "Layout1",
     title_text |-> "Population by tract",
     mapframe_extent |->
         IF "mapframe_extent" \in sup THEN <<5000, 5000, 70000, 50000>>
         ELSE NotPassed,
     title_position |->
         IF "title_position" \in sup THEN <<40000, 56000>> ELSE NotPassed,
     legend_position |->
         IF "legend_position" \in sup THEN <<2000, 20000>> ELSE NotPassed,
     legend_size |->
         IF "legend_size" \in sup THEN <<15000, 20000>> ELSE NotPassed,
     scalebar_position |->
         IF "scalebar_position" \in sup THEN <<30000, 3000>> ELSE NotPassed,
     north_arrow_position |->
         IF "north_arrow_position" \in sup THEN <<70000, 50000>>
         ELSE NotPassed]

Init ==
    /\ \/ /\ fn = "create_single_map"
          /\ supplied \in SUBSET SingleMapOptional
          /\ \E renderer \in Renderers, label_map \in LabelMaps :
                args = SingleMapArgs(renderer, supplied, label_map)
       \/ /\ fn = "create_standard_layout"
          /\ supplied \in SUBSET LayoutOptional
          /\ args = LayoutArgs(supplied)
    /\ pc = Steps[1]
    /\ status = "running"
    /\ error = NoError
    /\ result = "none"
    /\ calls = <<>>
    /\ layers = <<>>
    /\ mapLayers = <<>>
    /\ todo = <<>>
    /\ sym = HostSymbology
    /\ layerSymbology = HostSymbology
    /\ labelMapReads = 0
    /\ layoutDef = <<>>
    /\ lyt_cim = <<>>
    /\ legendDef = <<>>
    /\ leg_cim = <<>>
    /\ cursor = 1
    /\ elements = <<>>

(***************************************************************************)
(* create_single_map (lines 49-86).                                        *)
(***************************************************************************)
\* line 49: the host creates the map with its default basemap layers
CreateMap ==
    /\ Running("createMap")
    /\ \E nb \in 0..MaxDefaultLayers :
          /\ layers' = [i \in 1..nb |->
                            [isBasemapLayer |-> TRUE, name |-> "Basemap"]]
          /\ mapLayers' = [i \in 1..nb |-> i]
    /\ calls' = Log("createMap", <<args.map_name>>)
    /\ Proceed
    /\ UNCHANGED <<ctlVars, todo, symVars, layoutVars>>

\* line 50: the dataset becomes layer 0, on top of the map
AddDataFromPath ==
    /\ Running("addDataFromPath")
    /\ \E basemap \in BOOLEAN :
          layers' = [id \in {0} \cup DOMAIN layers |->
                        IF id = 0
                        THEN [isBasemapLayer |-> basemap,
                              name |-> args.layer_path]
                        ELSE layers[id]]
    /\ mapLayers' = <<0>> \o mapLayers
    /\ calls' = Log("addDataFromPath", <<args.layer_path>>)
    /\ Proceed
    /\ UNCHANGED <<ctlVars, todo, symVars, layoutVars>>

\* line 51
SetName ==
    /\ Running("setName")
    /\ layers' = [layers EXCEPT ![0].name = args.layer_name]
    /\ calls' = Log("setName", <<args.layer_name>>)
    /\ Proceed
    /\ UNCHANGED <<ctlVars, mapLayers, todo, symVars, layoutVars>>

\* line 54: listLayers returns a new list of the layers of the map
ListLayers ==
    /\ Running("listLayers")
    /\ todo' = mapLayers
    /\ calls' = Log("listLayers", <<>>)
    /\ Proceed
    /\ UNCHANGED <<ctlVars, layers, mapLayers, symVars, layoutVars>>

RemoveFrom(seq, id) == SelectSeq(seq, LAMBDA x : x # id)

\* as NextLayers, but walking the map's own list, where a removal moves the
\* next layer into the place just visited
NextLayersLive(rest, removed) ==
    IF removed /\ Len(rest) > 1 THEN Tail(Tail(rest)) ELSE Tail(rest)

\* what the loop of line 54 has left to visit after the head of rest; the
\* list it walks is not the map's own, so a removal does not shift it
NextLayers(rest, removed) == Tail(rest)

\* lines 54-56, one iteration
RemoveBasemaps ==
    /\ Running("removeBasemaps")
    /\ todo # <<>>
    /\ LET lyr == Head(todo)
           removed == layers[lyr].isBasemapLayer
       IN  /\ todo' = NextLayers(todo, removed)
           /\ IF removed
              THEN /\ mapLayers' = RemoveFrom(mapLayers, lyr)
                   /\ layers' = [id \in DOMAIN layers \ (IF lyr = 0 THEN {}
                                                           ELSE {lyr})
                                     |-> layers[id]]
                   /\ calls' = Log("removeLayer", <<lyr>>)
              ELSE UNCHANGED <<mapLayers, layers, calls>>
    /\ UNCHANGED <<ctlVars, pc, status, error, result, symVars, layoutVars>>

\* line 54, the end of the loop
RemoveBasemapsDone ==
    /\ Running("removeBasemaps")
    /\ todo = <<>>
    /\ Proceed
    /\ UNCHANGED <<ctlVars, calls, mapVars, symVars, layoutVars>>

\* line 58: layer.symbology hands out a copy
GetSymbology ==
    /\ Running("getSymbology")
    /\ sym' = layerSymbology
    /\ calls' = Log("getSymbology", <<>>)
    /\ Proceed
    /\ UNCHANGED <<ctlVars, mapVars, layerSymbology, labelMapReads, cursor,
                   layoutVars>>

\* line 59: the host changes the renderer when it knows the name
UpdateRenderer ==
    /\ Running("updateRenderer")
    /\ sym' = IF args.renderer \in HostRenderers
              THEN [sym EXCEPT !.renderer = args.renderer]
              ELSE sym
    /\ calls' = Log("updateRenderer", <<args.renderer>>)
    /\ Proceed
    /\ UNCHANGED <<ctlVars, mapVars, layerSymbology, labelMapReads, cursor,
                   layoutVars>>

\* line 61: the project has a colour ramp of that name
ListColorRamps ==
    /\ Running("listColorRamps")
    /\ calls' = Log("listColorRamps", <<args.color_map>>)
    /\ Proceed
    /\ UNCHANGED <<ctlVars, mapVars, symVars, layoutVars>>

\* line 61: the project has none, and [0] of the empty list fails
ListColorRampsEmpty ==
    /\ Running("listColorRamps")
    /\ calls' = Log("listColorRamps", <<args.color_map>>)
    /\ Raise("IndexError", <<"list index out of range">>)
    /\ UNCHANGED <<ctlVars, mapVars, symVars, layoutVars>>

\* line 62
SetColorRamp ==
    /\ Running("setColorRamp")
    /\ sym' = [sym EXCEPT !.colorRamp = args.color_map]
    /\ calls' = Log("setColorRamp", <<args.color_map>>)
    /\ Proceed
    /\ UNCHANGED <<ctlVars, mapVars, layerSymbology, labelMapReads, cursor,
                   layoutVars>>

\* line 66: the host rebuilds the groups from the values of the field
SetFields ==
    /\ Running("setFields")
    /\ \E groups \in 0..1, items \in ItemLists :
          /\ groups = 0 => items = <<>>
          /\ sym' = [sym EXCEPT !.fields = <<args.variable_name>>,
                                !.groups = groups, !.items = items]
    /\ calls' = Log("setFields", <<args.variable_name>>)
    /\ Proceed
    /\ UNCHANGED <<ctlVars, mapVars, layerSymbology, labelMapReads, cursor,
                   layoutVars>>

\* line 68
GetItems ==
    /\ Running("getItems")
    /\ sym.groups > 0
    /\ calls' = Log("getItems", <<>>)
    /\ Proceed
    /\ UNCHANGED <<ctlVars, mapVars, symVars, layoutVars>>

\* line 68: the renderer has no group, and groups[0] fails
GetItemsNoGroup ==
    /\ Running("getItems")
    /\ sym.groups = 0
    /\ Raise("IndexError", <<"list index out of range">>)
    /\ UNCHANGED <<ctlVars, calls, mapVars, symVars, layoutVars>>

\* line 69
SortItems ==
    /\ Running("sortItems")
    /\ SameTypeKeys(sym.items)
    /\ sym' = [sym EXCEPT !.items = ListSort(sym.items)]
    /\ Proceed
    /\ UNCHANGED <<ctlVars, calls, mapVars, layerSymbology, labelMapReads,
                   cursor, layoutVars>>

\* line 69: an int key and a str key do not compare
SortItemsMixed ==
    /\ Running("sortItems")
    /\ ~SameTypeKeys(sym.items)
    /\ Raise("TypeError", <<"'<' not supported">>)
    /\ UNCHANGED <<ctlVars, calls, mapVars, symVars, layoutVars>>

\* lines 71-73, one iteration
LabelItem ==
    /\ Running("labelItems")
    /\ cursor <= Len(sym.items)
    /\ CanInt(sym.items[cursor].value)
    /\ ~Param("label_map").none
    /\ sym' = [sym EXCEPT !.items[cursor].label =
                              ItemLabel(Param("label_map"), sym.items[cursor])]
    /\ labelMapReads' = labelMapReads + 1
    /\ cursor' = cursor + 1
    /\ UNCHANGED <<ctlVars, pc, status, error, result, calls, mapVars,
                   layerSymbology, layoutVars>>

\* line 72: int() of a value that is not a number
LabelItemNotInt ==
    /\ Running("labelItems")
    /\ cursor <= Len(sym.items)
    /\ ~CanInt(sym.items[cursor].value)
    /\ Raise("ValueError", <<"invalid literal for int()">>)
    /\ UNCHANGED <<ctlVars, calls, mapVars, symVars, layoutVars>>

\* line 73: label_map is None, and None has no get
LabelItemNone ==
    /\ Running("labelItems")
    /\ cursor <= Len(sym.items)
    /\ CanInt(sym.items[cursor].value)
    /\ Param("label_map").none
    /\ labelMapReads' = labelMapReads + 1
    /\ Raise("AttributeError", <<"'NoneType' object has no attribute 'get'">>)
    /\ UNCHANGED <<ctlVars, calls, mapVars, sym, layerSymbology, cursor,
                   layoutVars>>

\* line 71, the end of the loop
LabelItemsDone ==
    /\ Running("labelItems")
    /\ cursor > Len(sym.items)
    /\ Proceed
    /\ UNCHANGED <<ctlVars, calls, mapVars, symVars, layoutVars>>

\* line 77
SetClassificationField ==
    /\ Running("setClassificationField")
    /\ sym' = [sym EXCEPT !.classificationField = args.variable_name]
    /\ calls' = Log("setClassificationField", <<args.variable_name>>)
    /\ Proceed
    /\ UNCHANGED <<ctlVars, mapVars, layerSymbology, labelMapReads, cursor,
                   layoutVars>>

\* line 78
SetClassificationMethod ==
    /\ Running("setClassificationMethod")
    /\ sym' = [sym EXCEPT !.classificationMethod =
                              Param("classification_method")]
    /\ calls' = Log("setClassificationMethod",
                    <<Param("classification_method")>>)
    /\ Proceed
    /\ UNCHANGED <<ctlVars, mapVars, layerSymbology, labelMapReads, cursor,
                   layoutVars>>

\* line 79
SetBreakCount ==
    /\ Running("setBreakCount")
    /\ sym' = [sym EXCEPT !.breakCount = Param("break_count")]
    /\ calls' = Log("setBreakCount", <<Param("break_count")>>)
    /\ Proceed
    /\ UNCHANGED <<ctlVars, mapVars, layerSymbology, labelMapReads, cursor,
                   layoutVars>>

\* line 80
Reclassify ==
    /\ Running("reclassify")
    /\ sym' = [sym EXCEPT !.reclassified = sym.reclassified + 1]
    /\ calls' = Log("reclassify", <<>>)
    /\ Proceed
    /\ UNCHANGED <<ctlVars, mapVars, layerSymbology, labelMapReads, cursor,
                   layoutVars>>

\* lines 82-83
RaiseUnsupported ==
    /\ Running("raiseUnsupported")
    /\ Raise("ValueError", <<"Unsupported renderer: ", args.renderer>>)
    /\ UNCHANGED <<ctlVars, calls, mapVars, symVars, layoutVars>>

\* line 85
SetSymbology ==
    /\ Running("setSymbology")
    /\ layerSymbology' = sym
    /\ calls' = Log("setSymbology", <<>>)
    /\ Proceed
    /\ UNCHANGED <<ctlVars, mapVars, sym, labelMapReads, cursor, layoutVars>>

\* line 86
ReturnMapLayer ==
    /\ Running("returnMapLayer")
    /\ status' = "returned"
    /\ result' = "map, layer"
    /\ UNCHANGED <<ctlVars, pc, error, calls, mapVars, symVars, layoutVars>>

(***************************************************************************)
(* create_standard_layout (lines 136-213).                                 *)
(***************************************************************************)
Element(kind, at) ==
    [kind |-> kind, at |-> at, text |-> "", size |-> 0, anchor |-> "",
     fontFamilyName |-> "", elementWidth |-> 0, elementHeight |-> 0]

\* the index of the element of that kind the function created
ElementOf(kind) == CHOOSE i \in 1..Len(elements) : elements[i].kind = kind

CimTypes == {"CIMMapFrame", "CIMGraphicElement"}

\* line 136
CreateLayout ==
    /\ Running("createLayout")
    /\ calls' = Log("createLayout",
                    <<PageSize[1], PageSize[2], "INCH", args.layout_name>>)
    /\ Proceed
    /\ UNCHANGED <<ctlVars, mapVars, symVars, layoutVars>>

\* lines 138-139: the rectangle of the map frame
MapframeExtent ==
    IF MapframeExtentIsNone THEN DefaultMapframeExtent
    ELSE args.mapframe_extent

\* lines 138-139: arcpy.Extent is called only when no rectangle was given
DefaultExtent ==
    /\ Running("defaultExtent")
    /\ calls' = IF MapframeExtentIsNone
                THEN Log("Extent", DefaultMapframeExtent)
                ELSE calls
    /\ Proceed
    /\ UNCHANGED <<ctlVars, mapVars, symVars, layoutVars>>

\* line 141: the layout's definition now holds the frame, with a border,
\* and whatever else the host keeps in it
CreateMapFrame ==
    /\ Running("createMapFrame")
    /\ elements' = Append(elements, Element("MAPFRAME", MapframeExtent))
    /\ \E n \in 0..(MaxCimElements - 1) :
          \E others \in [1..n -> CimTypes] :
            layoutDef' =
                <<[type |-> "CIMMapFrame", borderSymbol |-> "line"]>>
                \o [i \in 1..n |->
                       [type |-> others[i], borderSymbol |-> "line"]]
    /\ calls' = Log("createMapFrame", <<MapframeExtent, args.map_obj>>)
    /\ Proceed
    /\ UNCHANGED <<ctlVars, mapVars, symVars, lyt_cim, legendDef, leg_cim>>

\* line 144
GetDefinition ==
    /\ Running("getDefinition")
    /\ lyt_cim' = layoutDef
    /\ calls' = Log("getDefinition", <<"V3">>)
    /\ Proceed
    /\ UNCHANGED <<ctlVars, mapVars, symVars, layoutDef, legendDef, leg_cim,
                   elements>>

\* lines 146-147
StripBorder(elm) ==
    IF elm.type = "CIMMapFrame" THEN [elm EXCEPT !.borderSymbol = "None"]
    ELSE elm

\* lines 145-147
ClearBorders ==
    /\ Running("clearBorders")
    /\ lyt_cim' = [i \in 1..Len(lyt_cim) |-> StripBorder(lyt_cim[i])]
    /\ Proceed
    /\ UNCHANGED <<ctlVars, calls, mapVars, symVars, layoutDef, legendDef,
                   leg_cim, elements>>

\* line 148
SetDefinition ==
    /\ Running("setDefinition")
    /\ layoutDef' = lyt_cim
    /\ calls' = Log("setDefinition", <<lyt_cim>>)
    /\ Proceed
    /\ UNCHANGED <<ctlVars, mapVars, symVars, lyt_cim, legendDef, leg_cim,
                   elements>>

\* line 151, the inner call
GetLayerExtent ==
    /\ Running("getLayerExtent")
    /\ calls' = Log("getLayerExtent", <<args.layer>>)
    /\ Proceed
    /\ UNCHANGED <<ctlVars, mapVars, symVars, layoutVars>>

\* line 151, the outer call
SetExtent ==
    /\ Running("setExtent")
    /\ calls' = Log("setExtent", <<args.layer>>)
    /\ Proceed
    /\ UNCHANGED <<ctlVars, mapVars, symVars, layoutVars>>

StyleSteps ==
    {"listStyleItems_TEXT", "listStyleItems_LEGEND",
     "listStyleItems_SCALE_BAR", "listStyleItems_NORTH_ARROW"}

\* the style each of lines 154, 168, 186 and 200 asks for
StyleName(step) ==
    CASE step = "listStyleItems_TEXT" -> <<"TEXT", "Title (Serif)">>
      [] step = "listStyleItems_LEGEND" -> <<"LEGEND", "Legend 1">>
      [] step = "listStyleItems_SCALE_BAR" ->
             <<"SCALE_BAR", "Scale Line 1 Metric">>
      [] step = "listStyleItems_NORTH_ARROW" ->
             <<"NORTH_ARROW", "ArcGIS North 1">>

\* lines 154, 168, 186, 200: the style library has the style
ListStyleItems ==
    /\ status = "running"
    /\ pc \in StyleSteps
    /\ calls' = Log(pc, <<"ArcGIS 2D">> \o StyleName(pc))
    /\ Proceed
    /\ UNCHANGED <<ctlVars, mapVars, symVars, layoutVars>>

\* lines 154, 168, 186, 200: it has not, and [0] of the empty list fails
ListStyleItemsEmpty ==
    /\ status = "running"
    /\ pc \in StyleSteps
    /\ calls' = Log(pc, <<"ArcGIS 2D">> \o StyleName(pc))
    /\ Raise("IndexError", <<"list index out of range">>)
    /\ UNCHANGED <<ctlVars, mapVars, symVars, layoutVars>>

\* lines 155-162
CreateTextElement ==
    /\ Running("createTextElement")
    /\ elements' = Append(elements,
                          [Element("TEXT", Param("title_position"))
                              EXCEPT !.text = args.title_text, !.size = 20])
    /\ calls' = Log("createTextElement",
                    <<Param("title_position"), "POINT", args.title_text, 20>>)
    /\ Proceed
    /\ UNCHANGED <<ctlVars, mapVars, symVars, layoutDef, lyt_cim, legendDef,
                   leg_cim>>

\* line 164
SetAnchor ==
    /\ Running("setAnchor")
    /\ elements' = [elements EXCEPT ![ElementOf("TEXT")].anchor =
                                        "Center_Point"]
    /\ calls' = Log("setAnchor", <<"Center_Point">>)
    /\ Proceed
    /\ UNCHANGED <<ctlVars, mapVars, symVars, layoutDef, lyt_cim, legendDef,
                   leg_cim>>

\* line 165
SetFontFamilyName ==
    /\ Running("setFontFamilyName")
    /\ elements' = [elements EXCEPT ![ElementOf("TEXT")].fontFamilyName =
                                        "Garamond"]
    /\ calls' = Log("setFontFamilyName", <<"Garamond">>)
    /\ Proceed
    /\ UNCHANGED <<ctlVars, mapVars, symVars, layoutDef, lyt_cim, legendDef,
                   leg_cim>>

\* lines 169-174: the legend comes with one item for each layer it shows
CreateLegend ==
    /\ Running("createLegend")
    /\ elements' = Append(elements,
                          Element("LEGEND", Param("legend_position")))
    /\ \E n \in 0..MaxLegendItems :
          legendDef' = [i \in 1..n |->
                           [showLayerName |-> TRUE, showHeading |-> TRUE]]
    /\ calls' = Log("createLegend", <<Param("legend_position"), "LEGEND">>)
    /\ Proceed
    /\ UNCHANGED <<ctlVars, mapVars, symVars, layoutDef, lyt_cim, leg_cim>>

\* line 176
SetElementWidth ==
    /\ Running("setElementWidth")
    /\ elements' = [elements EXCEPT ![ElementOf("LEGEND")].elementWidth =
                                        Param("legend_size")[1]]
    /\ calls' = Log("setElementWidth", <<Param("legend_size")[1]>>)
    /\ Proceed
    /\ UNCHANGED <<ctlVars, mapVars, symVars, layoutDef, lyt_cim, legendDef,
                   leg_cim>>

\* line 177
SetElementHeight ==
    /\ Running("setElementHeight")
    /\ elements' = [elements EXCEPT ![ElementOf("LEGEND")].elementHeight =
                                        Param("legend_size")[2]]
    /\ calls' = Log("setElementHeight", <<Param("legend_size")[2]>>)
    /\ Proceed
    /\ UNCHANGED <<ctlVars, mapVars, symVars, layoutDef, lyt_cim, legendDef,
                   leg_cim>>

\* line 179
LegendGetDefinition ==
    /\ Running("legendGetDefinition")
    /\ leg_cim' = legendDef
    /\ calls' = Log("legendGetDefinition", <<"V3">>)
    /\ Proceed
    /\ UNCHANGED <<ctlVars, mapVars, symVars, layoutDef, lyt_cim, legendDef,
                   elements>>

\* lines 181-182
HideNames(item) ==
    [item EXCEPT !.showLayerName = FALSE, !.showHeading = FALSE]

\* lines 180-182
HideLegendNames ==
    /\ Running("hideLegendNames")
    /\ leg_cim' = [i \in 1..Len(leg_cim) |-> HideNames(leg_cim[i])]
    /\ Proceed
    /\ UNCHANGED <<ctlVars, calls, mapVars, symVars, layoutDef, lyt_cim,
                   legendDef, elements>>

\* line 183
LegendSetDefinition ==
    /\ Running("legendSetDefinition")
    /\ legendDef' = leg_cim
    /\ calls' = Log("legendSetDefinition", <<leg_cim>>)
    /\ Proceed
    /\ UNCHANGED <<ctlVars, mapVars, symVars, layoutDef, lyt_cim, leg_cim,
                   elements>>

\* lines 192-197
CreateScaleBar ==
    /\ Running("createScaleBar")
    /\ elements' = Append(elements,
                          Element("SCALE_BAR", Param("scalebar_position")))
    /\ calls' = Log("createScaleBar",
                    <<Param("scalebar_position"), "SCALE_BAR">>)
    /\ Proceed
    /\ UNCHANGED <<ctlVars, mapVars, symVars, layoutDef, lyt_cim, legendDef,
                   leg_cim>>

\* lines 206-211
CreateNorthArrow ==
    /\ Running("createNorthArrow")
    /\ elements' = Append(elements,
                          Element("NORTH_ARROW",
                                  Param("north_arrow_position")))
    /\ calls' = Log("createNorthArrow",
                    <<Param("north_arrow_position"), "NORTH_ARROW">>)
    /\ Proceed
    /\ UNCHANGED <<ctlVars, mapVars, symVars, layoutDef, lyt_cim, legendDef,
                   leg_cim>>

\* line 213
ReturnLayout ==
    /\ Running("returnLayout")
    /\ status' = "returned"
    /\ result' = "layout"
    /\ UNCHANGED <<ctlVars, pc, error, calls, mapVars, symVars, layoutVars>>

(***************************************************************************)
(* A host call that fails.  Neither function has a try statement, so the    *)
(* exception ends the call at the statement that made the host call.       *)
(***************************************************************************)
\* the host call statement step is about to make, if any
CallPending(step) ==
    /\ step \notin PythonSteps
    /\ step = "removeBasemaps" =>
           todo # <<>> /\ layers[Head(todo)].isBasemapLayer
    /\ step = "defaultExtent" => MapframeExtentIsNone

HostOp(step) ==
    IF step = "removeBasemaps" THEN "removeLayer"
    ELSE IF step = "defaultExtent" THEN "Extent"
    ELSE step

\* as HostFailure, but with the failure caught and the function going on
HostFailureCaught(step) == [status |-> "running", error |-> NoError]

\* where a failure of the host call of statement step leaves the function
HostFailure(step) ==
    [status |-> "raised", error |-> [type |-> "HostError", msg |-> <<step>>]]

HostFails ==
    /\ status = "running"
    /\ CallPending(pc)
    /\ calls' = Append(calls, [op |-> HostOp(pc), arg |-> <<>>, ok |-> FALSE])
    /\ status' = HostFailure(pc).status
    /\ error' = HostFailure(pc).error
    /\ UNCHANGED <<ctlVars, pc, result, mapVars, symVars, layoutVars>>

Next ==
    \/ CreateMap \/ AddDataFromPath \/ SetName \/ ListLayers
    \/ RemoveBasemaps \/ RemoveBasemapsDone \/ GetSymbology
    \/ UpdateRenderer \/ ListColorRamps \/ ListColorRampsEmpty
    \/ SetColorRamp \/ SetFields \/ GetItems \/ GetItemsNoGroup
    \/ SortItems \/ SortItemsMixed \/ LabelItem \/ LabelItemNotInt
    \/ LabelItemNone \/ LabelItemsDone \/ SetClassificationField
    \/ SetClassificationMethod \/ SetBreakCount \/ Reclassify
    \/ RaiseUnsupported \/ SetSymbology \/ ReturnMapLayer
    \/ CreateLayout \/ DefaultExtent \/ CreateMapFrame \/ GetDefinition
    \/ ClearBorders \/ SetDefinition \/ GetLayerExtent \/ SetExtent
    \/ ListStyleItems \/ ListStyleItemsEmpty \/ CreateTextElement
    \/ SetAnchor \/ SetFontFamilyName \/ CreateLegend \/ SetElementWidth
    \/ SetElementHeight \/ LegendGetDefinition \/ HideLegendNames
    \/ LegendSetDefinition \/ CreateScaleBar \/ CreateNorthArrow
    \/ ReturnLayout \/ HostFails

Spec == Init /\ [][Next]_vars

(***************************************************************************)
(* Properties.                                                             *)
(***************************************************************************)
SingleMap == fn = "create_single_map"

Layout == fn = "create_standard_layout"

Returned == status = "returned"

UniqueValue == SingleMap /\ args.renderer = "UniqueValueRenderer"

Graduated == SingleMap /\ args.renderer = "GraduatedColorsRenderer"

Unsupported ==
    /\ SingleMap
    /\ args.renderer \notin {"UniqueValueRenderer", "GraduatedColorsRenderer"}

\* the places of the log where op was called, and where it was answered
Called(op) == {i \in 1..Len(calls) : calls[i].op = op}

Answered(op) == {i \in Called(op) : calls[i].ok}

\* every call of b comes after an answered call of a
Precedes(a, b) == \A j \in Called(b) : \E i \in Answered(a) : i < j

HostAnswered == \A i \in 1..Len(calls) : calls[i].ok

UnsupportedError ==
    [type |-> "ValueError", msg |-> <<"Unsupported renderer: ", args.renderer>>]

InMap(id) == \E i \in 1..Len(mapLayers) : mapLayers[i] = id

NoBasemapInMap ==
    \A i \in 1..Len(mapLayers) : ~layers[mapLayers[i]].isBasemapLayer

\* s is the decimal numeral of n
IsDecimalOf(s, n) ==
    /\ s # <<>>
    /\ \A i \in 1..Len(s) : IsDigit(s[i])
    /\ Len(s) > 1 => s[1] # 48
    /\ DigitsValue(s) = n

\* the classes of the renderer the layer ends up with
FinalItems == layerSymbology.items

\* C1: for a renderer other than the two supported ones, a call the host
\* answers throughout ends with the ValueError that names the renderer, and
\* returns nothing.
C1_UnsupportedRaisesValueError ==
    (Unsupported /\ status # "running" /\ HostAnswered)
        => (status = "raised" /\ error = UnsupportedError /\ result = "none")

\* C2: when create_single_map returns with the unique-value renderer, each
\* class is labelled with label_map's entry for its integer value when there
\* is one, and with the decimal numeral of that value otherwise.
C2_LabelsFollowLabelMap ==
    (UniqueValue /\ Returned) =>
        \A i \in 1..Len(FinalItems) :
            LET val == PyInt(FinalItems[i].value)
                d == Param("label_map").d
            IN  /\ CanInt(FinalItems[i].value)
                /\ IF val \in DOMAIN d
                   THEN FinalItems[i].label = d[val]
                   ELSE IsDecimalOf(FinalItems[i].label, val)

C2_Witness ==
    /\ UniqueValue /\ Returned
    /\ \E i, j \in 1..Len(FinalItems) :
          /\ PyInt(FinalItems[i].value) \in DOMAIN Param("label_map").d
          /\ PyInt(FinalItems[j].value) \notin DOMAIN Param("label_map").d
          /\ FinalItems[j].value.t = "str"
          /\ FinalItems[j].value.s[1] = 48

\* C3: with the unique-value renderer and label_map left out, the call
\* never fails for want of a mapping, and when it returns every class is
\* labelled with the decimal numeral of its value.
C3_OmittedLabelMapCompletes ==
    (UniqueValue /\ "label_map" \notin supplied) =>
        /\ error.type # "AttributeError"
        /\ Returned =>
               \A i \in 1..Len(FinalItems) :
                   IsDecimalOf(FinalItems[i].label,
                               PyInt(FinalItems[i].value))

\* C4: a host call that takes an optional parameter gets the value the
\* caller passed, and the documented default when the caller passed none.
C4_DefaultsReachHost ==
    \A i \in 1..Len(calls) :
        LET op == calls[i].op
            arg == calls[i].arg
            Expect(name, default) ==
                IF name \in supplied THEN args[name] ELSE default
        IN  calls[i].ok =>
              /\ op = "setClassificationMethod" =>
                     arg[1] = Expect("classification_method", "NaturalBreaks")
              /\ op = "setBreakCount" => arg[1] = Expect("break_count", 5)
              /\ op = "createTextElement" =>
                     arg[1] = Expect("title_position", <<41215, 55390>>)
              /\ op = "createLegend" =>
                     arg[1] = Expect("legend_position", <<1464, 22927>>)
              /\ op = "setElementWidth" =>
                     arg[1] = Expect("legend_size", <<12357, 17131>>)[1]
              /\ op = "setElementHeight" =>
                     arg[1] = Expect("legend_size", <<12357, 17131>>)[2]
              /\ op = "createScaleBar" =>
                     arg[1] = Expect("scalebar_position", <<27713, 2371>>)
              /\ op = "createNorthArrow" =>
                     arg[1] = Expect("north_arrow_position", <<72704, 48844>>)

C4_Witness ==
    /\ Layout /\ Returned
    /\ supplied = {"legend_size"}
    /\ elements[ElementOf("TEXT")].at = <<41215, 55390>>
    /\ elements[ElementOf("LEGEND")].elementWidth = 15000

\* C5: when create_single_map returns, no layer of the map is a basemap
\* layer, and the dataset's layer, unless it is one itself, is still in the
\* map under the name layer_name.
C5_BasemapsStripped ==
    (SingleMap /\ Returned) =>
        /\ NoBasemapInMap
        /\ ~layers[0].isBasemapLayer =>
               InMap(0) /\ layers[0].name = args.layer_name

C5_Witness ==
    /\ SingleMap /\ Returned
    /\ Cardinality(Answered("removeLayer")) = MaxDefaultLayers
    /\ mapLayers = <<0>>

\* C6: in create_standard_layout a failure ends the call where it happens:
\* the failed call is the last one made and is made once, the function
\* stays at that statement, and nothing is returned.
C6_FailurePropagates ==
    Layout =>
        /\ \A i \in 1..Len(calls) :
               ~calls[i].ok =>
                   /\ i = Len(calls)
                   /\ Called(calls[i].op) = {i}
                   /\ status = "raised"
                   /\ error = [type |-> "HostError", msg |-> <<pc>>]
                   /\ HostOp(pc) = calls[i].op
        /\ error.type = "IndexError" =>
               /\ pc \in StyleSteps
               /\ calls[Len(calls)].op = pc
               /\ Called(pc) = {Len(calls)}
        /\ status = "raised" <=> error # NoError
        /\ status = "raised" => result = "none"
        /\ result = "layout" => HostAnswered /\ Returned

C6_Witness ==
    /\ Layout
    /\ status = "raised"
    /\ pc = "createLegend"
    /\ ~calls[Len(calls)].ok
    /\ Len(elements) = 2

\* C7: with the graduated renderer the renderer kind is set before the
\* classification field; the field, the method and the break count are set
\* before reclassification; reclassification happens once; the symbology is
\* written back after it; and label_map is never read.
C7_GraduatedOrder ==
    Graduated =>
        /\ Precedes("updateRenderer", "setClassificationField")
        /\ Precedes("setClassificationField", "reclassify")
        /\ Precedes("setClassificationMethod", "reclassify")
        /\ Precedes("setBreakCount", "reclassify")
        /\ Precedes("reclassify", "setSymbology")
        /\ Cardinality(Called("reclassify")) <= 1
        /\ Returned => Cardinality(Answered("reclassify")) = 1
        /\ Returned => Cardinality(Answered("setSymbology")) = 1
        /\ Returned => layerSymbology.reclassified = 1
        /\ labelMapReads = 0

C7_Witness ==
    /\ Graduated /\ Returned
    /\ layerSymbology.renderer = "GraduatedColorsRenderer"
    /\ layerSymbology.classificationField = args.variable_name
    /\ layerSymbology.breakCount = 7

\* the host calls of a successful create_standard_layout, but for the one
\* that builds the default rectangle
LayoutCalls ==
    <<"createLayout", "createMapFrame", "getDefinition", "setDefinition",
      "getLayerExtent", "setExtent", "listStyleItems_TEXT",
      "createTextElement", "setAnchor", "setFontFamilyName",
      "listStyleItems_LEGEND", "createLegend", "setElementWidth",
      "setElementHeight", "legendGetDefinition", "legendSetDefinition",
      "listStyleItems_SCALE_BAR", "createScaleBar",
      "listStyleItems_NORTH_ARROW", "createNorthArrow">>

\* C8: a successful create_standard_layout makes its host calls once each
\* and in the documented order, on an 8.27 x 5.83 inch page, with the frame
\* at the given or the default rectangle; the definitions it writes back
\* have no border on any map frame and no layer name or heading on any
\* legend item.
C8_LayoutOrder ==
    (Layout /\ Returned) =>
        /\ HostAnswered
        /\ SelectSeq([i \in 1..Len(calls) |-> calls[i].op],
                     LAMBDA op : op # "Extent") = LayoutCalls
        /\ Called("Extent") = IF MapframeExtentIsNone THEN {2} ELSE {}
        /\ calls[1].arg = <<82700, 58300, "INCH", args.layout_name>>
        /\ \A i \in Called("createMapFrame") :
               calls[i].arg[1] = IF MapframeExtentIsNone
                                 THEN <<8850, 6650, 73850, 51650>>
                                 ELSE args.mapframe_extent
        /\ \A i \in Called("setDefinition") :
               /\ calls[i].arg[1] = layoutDef
               /\ \A k \in 1..Len(layoutDef) :
                      layoutDef[k].type = "CIMMapFrame"
                          => layoutDef[k].borderSymbol = "None"
               /\ \E k \in 1..Len(layoutDef) :
                      layoutDef[k].type = "CIMMapFrame"
        /\ \A i \in Called("legendSetDefinition") :
               /\ calls[i].arg[1] = legendDef
               /\ \A k \in 1..Len(legendDef) :
                      ~legendDef[k].showLayerName /\ ~legendDef[k].showHeading
        /\ [i \in 1..Len(elements) |-> elements[i].kind] =
               <<"MAPFRAME", "TEXT", "LEGEND", "SCALE_BAR", "NORTH_ARROW">>

C8_Witness ==
    /\ Layout /\ Returned
    /\ MapframeExtentIsNone
    /\ Len(layoutDef) = MaxCimElements
    /\ Len(legendDef) = MaxLegendItems
    /\ result = "layout"

\* C9: when create_single_map returns with the unique-value renderer, the
\* classes are in ascending order of the integer value of their values,
\* whether the host holds the values as ints or as strings.
C9_ItemsInNumericOrder ==
    (UniqueValue /\ Returned) =>
        \A i, j \in 1..Len(FinalItems) :
            i < j => PyInt(FinalItems[i].value) <= PyInt(FinalItems[j].value)

\* C10: when create_single_map fails with the unsupported-renderer error,
\* the symbology was never written back to the layer, while the map was
\* created, the dataset added and renamed, the basemap layers removed, and
\* the renderer update and the colour-ramp lookup made.
C10_NoWriteBackNoRollback ==
    (SingleMap /\ error = UnsupportedError) =>
        /\ status = "raised" /\ result = "none"
        /\ Called("setSymbology") = {}
        /\ layerSymbology = HostSymbology
        /\ Answered("createMap") # {}
        /\ Answered("addDataFromPath") # {}
        /\ Answered("setName") # {}
        /\ layers[0].name = args.layer_name
        /\ NoBasemapInMap
        /\ Answered("updateRenderer") # {}
        /\ Answered("listColorRamps") # {}
        /\ Answered("setColorRamp") # {}
        /\ Precedes("createMap", "updateRenderer")

C10_Witness ==
    /\ SingleMap
    /\ error = UnsupportedError
    /\ Answered("removeLayer") # {}
    /\ InMap(0)
    /\ sym.colorRamp = args.color_map

====
